---- MODULE Spec2Model ----
(***************************************************************************)
(* Model of the geolocation verification pipeline (src/geo_2.py, the most  *)
(* complete of the three script revisions).                                *)
(*                                                                         *)
(* Two state machines share this module:                                   *)
(*   Spec / FairSpec : the batch scheduler of the processing section, the  *)
(*                     thread pool and its workers, and the checkpoint.    *)
(*   SpecLookup      : one call of check_location (the retry loop) with    *)
(*                     the history of the replies of the geocoding service.*)
(*                                                                         *)
(* Time is abstracted: the expiry of the batch deadline and of the 30 s    *)
(* per-task window are environment steps that may happen at any moment.    *)
(* concurrent.futures.TimeoutError is the builtin TimeoutError (Python     *)
(* 3.11 and later), so the handler of line 232 catches the batch timeout.  *)
(***************************************************************************)
EXTENDS Integers, Sequences, FiniteSets, TLC

\* ---------------------------------------------------------------- bounds
NumRecords == 4          \* rows of the input CSV
CHECKPOINT_EVERY == 3    \* batch size (500 in the source, scaled down)

\* ------------------------------------------------------ program constants
MAX_THREADS == 2         \* src/geo_2.py:17
retries == 3             \* src/geo_2.py:108
REQUEST_DELAY_MS == 1100 \* src/geo_2.py:19, REQUEST_DELAY = 1.1 s in milliseconds

Records == 1..NumRecords

\* the nine values of the geo_accuracy column
Statuses == {"unchecked", "accurate", "inaccurate", "inaccurate_country",
             "state_only_match", "state_match_city_mismatch", "unknown",
             "timeout", "error"}

VARIABLES
    pc,          \* position of the main thread in the script
    file,        \* OUTPUT_CSV: [exists, rows]
    df,          \* df["geo_accuracy"], row index -> status
    to_process,  \* df_to_process.index, in input order
    pos,         \* next position of the iterrows() loop in to_process
    batch,       \* the list `batch` (row indices)
    wstate,      \* state of the future of each row: none/pending/running/finished
    attempt,     \* loop variable `attempt` of a running check_location
    result,      \* status returned by a finished check_location
    yielded,     \* futures as_completed has yielded to the loop body
    deadline,    \* TRUE once TIMEOUT_PER_BATCH has elapsed for the batch
    overdue,     \* running workers whose call has lasted more than 30 s
    hpos,        \* position of the batch-timeout handler in `futures`
    marked,      \* rows the batch-timeout handler has set to `timeout`
    io_error,    \* TRUE once df.to_csv has raised
    lk_pc,       \* check_location alone: "idle", "loop" or "returned"
    lk_index,    \* its argument `index`
    lk_attempt,  \* its loop variable `attempt`
    lk_calls,    \* number of calls of geolocator.reverse it has made
    lk_log,      \* the replies of the service, one per call
    lk_return,   \* the tuple it returned: [index, status]
    lk_slept,    \* milliseconds slept since the last call (or since entry)
    lk_waits,    \* milliseconds slept before each call, one entry per call
    fn_pc,       \* normalize_name / comparison alone: "idle", "called", "returned"
    fn_in,       \* the arguments of the call
    fn_out       \* what the call computed

sched_vars == <<pc, file, df, to_process, pos, batch, wstate, attempt, result,
                yielded, deadline, overdue, hpos, marked, io_error>>
lookup_vars == <<lk_pc, lk_index, lk_attempt, lk_calls, lk_log, lk_return,
                 lk_slept, lk_waits>>
compare_vars == <<fn_pc, fn_in, fn_out>>
vars == <<pc, file, df, to_process, pos, batch, wstate, attempt, result,
          yielded, deadline, overdue, hpos, marked, io_error,
          lk_pc, lk_index, lk_attempt, lk_calls, lk_log, lk_return,
          lk_slept, lk_waits, fn_pc, fn_in, fn_out>>

\* ------------------------------------------------- the geocoding service
\* A reply of geolocator.reverse: it raises GeocoderTimedOut ("timeout"),
\* raises another exception ("error"), returns no location or no address
\* ("noaddress"), or returns an address.  An address is represented by the
\* outcome of the three comparisons of lines 146-175 and by whether one of the
\* city fields is present; city_match is only ever computed when it is.
Fail(k) == [kind |-> k, country_match |-> FALSE, state_match |-> FALSE,
            has_city |-> FALSE, city_match |-> FALSE]

Addresses == {[kind |-> "address", country_match |-> c, state_match |-> s,
               has_city |-> h, city_match |-> m] :
              c \in BOOLEAN, s \in BOOLEAN, h \in BOOLEAN, m \in BOOLEAN}

Replies == {Fail("timeout"), Fail("error"), Fail("noaddress")}
           \cup {a \in Addresses : a.city_match => a.has_city}

\* the replies the workers of the scheduler receive: the two failures, no
\* address, an address that matches in full and one of another country
SchedReplies ==
    {Fail("timeout"), Fail("error"), Fail("noaddress"),
     [kind |-> "address", country_match |-> TRUE, state_match |-> TRUE,
      has_city |-> TRUE, city_match |-> TRUE],
     [kind |-> "address", country_match |-> FALSE, state_match |-> FALSE,
      has_city |-> FALSE, city_match |-> FALSE]}

Decision_country_tested_last(country_match, state_match, city_match, has_city) ==
    IF city_match /\ state_match THEN "accurate"
    ELSE IF state_match /\ ~has_city THEN "state_only_match"
    ELSE IF state_match THEN "state_match_city_mismatch"
    ELSE IF ~country_match THEN "inaccurate_country"
    ELSE "inaccurate"

\* decision logic of check_location, lines 152-154 and 177-189
Decision(country_match, state_match, city_match, has_city) ==
    IF ~country_match THEN "inaccurate_country"
    ELSE IF city_match /\ state_match THEN "accurate"
    ELSE IF state_match /\ ~has_city THEN "state_only_match"
    ELSE IF state_match THEN "state_match_city_mismatch"
    ELSE "inaccurate"

last_attempt_off_by_one(a) == a = retries

\* `attempt == retries - 1`, lines 195 and 199
last_attempt(a) == a = retries - 1

AttemptResult_no_address_compared(a, reply) ==
    CASE reply.kind = "timeout"   -> IF last_attempt(a) THEN "timeout" ELSE "retry"
      [] reply.kind = "error"     -> IF last_attempt(a) THEN "error" ELSE "retry"
      [] reply.kind = "noaddress" -> Decision(FALSE, FALSE, FALSE, FALSE)
      [] reply.kind = "address"   -> Decision(reply.country_match, reply.state_match,
                                              reply.city_match, reply.has_city)

AttemptResult_error_not_returned(a, reply) ==
    CASE reply.kind = "timeout"   -> IF last_attempt(a) THEN "timeout" ELSE "retry"
      [] reply.kind = "error"     -> "retry"
      [] reply.kind = "noaddress" -> "unknown"
      [] reply.kind = "address"   -> Decision(reply.country_match, reply.state_match,
                                              reply.city_match, reply.has_city)

\* one iteration of the retry loop, lines 111-200: the status returned by the
\* iteration, or "retry" when the loop goes on to the next attempt
AttemptResult(a, reply) ==
    CASE reply.kind = "timeout"   -> IF last_attempt(a) THEN "timeout" ELSE "retry"
      [] reply.kind = "error"     -> IF last_attempt(a) THEN "error" ELSE "retry"
      [] reply.kind = "noaddress" -> "unknown"
      [] reply.kind = "address"   -> Decision(reply.country_match, reply.state_match,
                                              reply.city_match, reply.has_city)

\* `for attempt in range(retries)`, line 111: is there another iteration
in_range(a) == a < retries

\* lines 111-201: what the loop does with the reply to attempt a: return a
\* status, go on to attempt a + 1, or leave the loop and return `unknown`
LoopStep(a, reply) ==
    LET st == AttemptResult(a, reply)
    IN IF st # "retry" THEN [ret |-> TRUE, status |-> st, attempt |-> a]
       ELSE IF in_range(a + 1) THEN [ret |-> FALSE, status |-> "none", attempt |-> a + 1]
       ELSE [ret |-> TRUE, status |-> "unknown", attempt |-> a + 1]

\* ------------------------------------------------------------ OUTPUT_CSV
NoFile == [exists |-> FALSE, rows |-> [r \in Records |-> "unchecked"]]

\* OUTPUT_CSV as an earlier run left it: interrupted after its first
\* checkpoint, or complete
PriorFile(n) == [exists |-> TRUE,
                 rows |-> [r \in Records |-> IF r <= n THEN "accurate" ELSE "unchecked"]]

PriorFiles == {NoFile, PriorFile(CHECKPOINT_EVERY), PriorFile(NumRecords)}

\* ------------------------------------------------------------- helpers
BatchSet == {batch[i] : i \in 1..Len(batch)}
Running == {r \in Records : wstate[r] = "running"}

\* neither normalize_name nor the comparison is being looked at on its own
IdleCompare ==
    /\ fn_pc = "idle"
    /\ fn_in = [op |-> "none"]
    /\ fn_out = [op |-> "none"]

IdleLookup ==
    /\ lk_pc = "idle"
    /\ lk_index = 0
    /\ lk_attempt = 0
    /\ lk_calls = 0
    /\ lk_log = <<>>
    /\ lk_return = [index |-> 0, status |-> "none"]
    /\ lk_slept = 0
    /\ lk_waits = <<>>

\* the script before its first statement; OUTPUT_CSV may exist from a former run
Init ==
    /\ pc = "start"
    /\ file \in PriorFiles
    /\ df = [r \in Records |-> "unchecked"]
    /\ to_process = <<>>
    /\ pos = 1
    /\ batch = <<>>
    /\ wstate = [r \in Records |-> "none"]
    /\ attempt = [r \in Records |-> 0]
    /\ result = [r \in Records |-> "none"]
    /\ yielded = {}
    /\ deadline = FALSE
    /\ overdue = {}
    /\ hpos = 1
    /\ marked = {}
    /\ io_error = FALSE
    /\ IdleLookup
    /\ IdleCompare

\* --------------------------------------------------- the main thread
\* lines 25-31: the script reads INPUT_CSV with seven named columns, so the
\* geo_accuracy column is never present and is created as `unchecked`
LoadedColumn == [r \in Records |-> "unchecked"]

RECURSIVE UncheckedFrom(_, _)
\* line 34: the index of the rows of d that are `unchecked`, in input order
UncheckedFrom(d, r) ==
    IF r > NumRecords THEN <<>>
    ELSE IF d[r] = "unchecked" THEN <<r>> \o UncheckedFrom(d, r + 1)
    ELSE UncheckedFrom(d, r + 1)

\* lines 25-34 and 205
Load ==
    /\ pc = "start"
    /\ df' = LoadedColumn
    /\ to_process' = UncheckedFrom(LoadedColumn, 1)
    /\ pos' = 1
    /\ batch' = <<>>
    /\ pc' = IF UncheckedFrom(LoadedColumn, 1) = <<>> THEN "done" ELSE "filling"
    /\ UNCHANGED <<file, wstate, attempt, result, yielded, deadline, overdue,
                   hpos, marked, io_error, lookup_vars, compare_vars>>

batch_ready_one_late(b, i) == Len(b) > CHECKPOINT_EVERY \/ i = to_process[Len(to_process)]

\* line 213: the batch is full or the row is the last one to process
batch_ready(b, i) == Len(b) >= CHECKPOINT_EVERY \/ i = to_process[Len(to_process)]

\* lines 208-218: one iteration of the iterrows() loop; when the batch is ready
\* every entry is submitted to a fresh executor and the main thread enters
\* as_completed, whose deadline starts to run
Iterate ==
    /\ pc = "filling"
    /\ pos <= Len(to_process)
    /\ LET i == to_process[pos]
           b == Append(batch, i)
       IN /\ batch' = b
          /\ pos' = pos + 1
          /\ IF batch_ready(b, i)
             THEN /\ wstate' = [r \in Records |->
                                  IF \E k \in 1..Len(b) : b[k] = r THEN "pending"
                                  ELSE wstate[r]]
                  /\ pc' = "collecting"
             ELSE /\ UNCHANGED wstate
                  /\ pc' = "filling"
    /\ yielded' = {}
    /\ deadline' = FALSE
    /\ UNCHANGED <<file, df, to_process, attempt, result, overdue, hpos, marked,
                   io_error, lookup_vars, compare_vars>>

as_completed_yields_late(r) ==
    /\ pc \in {"collecting", "shutdown"}
    /\ r \in BatchSet
    /\ wstate[r] = "finished"
    /\ r \notin yielded

\* line 221: as_completed yields a future that is done and not yet yielded
as_completed_yields(r) ==
    /\ pc = "collecting"
    /\ r \in BatchSet
    /\ wstate[r] = "finished"
    /\ r \notin yielded

\* lines 221-225: the loop body for a yielded future; the future is done, so
\* future.result(timeout=30) returns at once and its timeout cannot fire;
\* check_location catches every exception of its loop body, so the branch of
\* line 229 is not taken either
Collect(r) ==
    /\ as_completed_yields(r)
    /\ df' = [df EXCEPT ![r] = result[r]]
    /\ yielded' = yielded \cup {r}
    /\ UNCHANGED <<pc, file, to_process, pos, batch, wstate, attempt, result,
                   deadline, overdue, hpos, marked, io_error, lookup_vars, compare_vars>>

\* line 221: every future has been yielded, the for loop ends
LoopEnd ==
    /\ pc = "collecting"
    /\ BatchSet \subseteq yielded
    /\ pc' = "shutdown"
    /\ UNCHANGED <<file, df, to_process, pos, batch, wstate, attempt, result,
                   yielded, deadline, overdue, hpos, marked, io_error, lookup_vars, compare_vars>>

\* TIMEOUT_PER_BATCH seconds have passed since as_completed was entered
DeadlineExpires ==
    /\ pc = "collecting"
    /\ ~deadline
    /\ deadline' = TRUE
    /\ UNCHANGED <<pc, file, df, to_process, pos, batch, wstate, attempt, result,
                   yielded, overdue, hpos, marked, io_error, lookup_vars, compare_vars>>

\* lines 221 and 232-233: as_completed finds the deadline passed while futures
\* are still to be yielded and raises TimeoutError
BatchTimeout ==
    /\ pc = "collecting"
    /\ deadline
    /\ ~(BatchSet \subseteq yielded)
    /\ pc' = "handler"
    /\ hpos' = 1
    /\ UNCHANGED <<file, df, to_process, pos, batch, wstate, attempt, result,
                   yielded, deadline, overdue, marked, io_error, lookup_vars, compare_vars>>

done_not_tested(r) == FALSE

\* line 236: future.done()
done(r) == wstate[r] = "finished"

\* lines 235-237: one iteration of the handler's loop over `futures`
HandlerStep ==
    /\ pc = "handler"
    /\ hpos <= Len(batch)
    /\ LET r == batch[hpos]
       IN IF ~done(r)
          THEN /\ df' = [df EXCEPT ![r] = "timeout"]
               /\ marked' = marked \cup {r}
          ELSE UNCHANGED <<df, marked>>
    /\ hpos' = hpos + 1
    /\ pc' = IF hpos = Len(batch) THEN "shutdown" ELSE "handler"
    /\ UNCHANGED <<file, to_process, pos, batch, wstate, attempt, result,
                   yielded, deadline, overdue, io_error, lookup_vars, compare_vars>>

shutdown_nowait == TRUE

\* line 217: leaving the with block calls executor.shutdown(wait=True), which
\* returns when every submitted call has run to its end
shutdown_wait == \A r \in BatchSet : wstate[r] = "finished"

ExecutorExit ==
    /\ pc = "shutdown"
    /\ shutdown_wait
    /\ pc' = "checkpoint"
    /\ UNCHANGED <<file, df, to_process, pos, batch, wstate, attempt, result,
                   yielded, deadline, overdue, hpos, marked, io_error, lookup_vars, compare_vars>>

after_persist_failure_swallowed == IF pos > Len(to_process) THEN "done" ELSE "filling"

\* line 241: an exception of df.to_csv is not caught, the script ends
after_persist_failure == "crashed"

\* lines 239-244: the checkpoint write, then `batch = []`; the futures of the
\* batch that are done go away with the executor
CheckpointWrite(ok) ==
    /\ pc = "checkpoint"
    /\ IF ok
       THEN /\ file' = [exists |-> TRUE, rows |-> df]
            /\ pc' = IF pos > Len(to_process) THEN "done" ELSE "filling"
            /\ UNCHANGED io_error
       ELSE /\ pc' = after_persist_failure
            /\ io_error' = TRUE
            /\ UNCHANGED file
    /\ batch' = <<>>
    /\ wstate' = [r \in Records |-> IF wstate[r] = "finished" THEN "none" ELSE wstate[r]]
    /\ result' = [r \in Records |-> IF wstate[r] = "finished" THEN "none" ELSE result[r]]
    /\ yielded' = {}
    /\ UNCHANGED <<overdue, df, to_process, pos, attempt, deadline, hpos, marked, lookup_vars, compare_vars>>

\* ------------------------------------------------- the pool's workers
\* the first pending work item of the executor's FIFO queue
FirstPending(r) ==
    \E k \in 1..Len(batch) :
        /\ batch[k] = r
        /\ wstate[r] = "pending"
        /\ \A j \in 1..(k - 1) : wstate[batch[j]] # "pending"

thread_free_unbounded == TRUE

\* line 217: max_workers=MAX_THREADS, a thread is free to take a work item
thread_free == Cardinality(Running) < MAX_THREADS

\* a pool thread takes the next work item and enters check_location
WorkerStart(r) ==
    /\ FirstPending(r)
    /\ thread_free
    /\ wstate' = [wstate EXCEPT ![r] = "running"]
    /\ attempt' = [attempt EXCEPT ![r] = 0]
    /\ UNCHANGED <<pc, file, df, to_process, pos, batch, result, yielded, deadline,
                   overdue, hpos, marked, io_error, lookup_vars, compare_vars>>

\* lines 111-200 in a pool thread: the service replies to the call of one
\* attempt; check_location returns (index, status) or goes on to the next
\* attempt.  The worker only returns its verdict, it does not touch df.
WorkerAttempt(r, reply) ==
    /\ wstate[r] = "running"
    /\ in_range(attempt[r])
    /\ LET st == LoopStep(attempt[r], reply)
       IN IF ~st.ret
          THEN /\ attempt' = [attempt EXCEPT ![r] = st.attempt]
               /\ UNCHANGED <<wstate, result, overdue>>
          ELSE /\ wstate' = [wstate EXCEPT ![r] = "finished"]
               /\ result' = [result EXCEPT ![r] = st.status]
               /\ attempt' = [attempt EXCEPT ![r] = 0]
               /\ overdue' = overdue \ {r}
    /\ UNCHANGED <<pc, file, df, to_process, pos, batch, yielded, deadline,
                   hpos, marked, io_error, lookup_vars, compare_vars>>

\* the call of a worker has been running for more than the 30 s of line 224
TaskWindowElapses(r) ==
    /\ wstate[r] = "running"
    /\ r \notin overdue
    /\ overdue' = overdue \cup {r}
    /\ UNCHANGED <<pc, file, df, to_process, pos, batch, wstate, attempt, result,
                   yielded, deadline, hpos, marked, io_error, lookup_vars, compare_vars>>

Next ==
    \/ Load
    \/ Iterate
    \/ \E r \in Records : Collect(r)
    \/ LoopEnd
    \/ DeadlineExpires
    \/ BatchTimeout
    \/ HandlerStep
    \/ ExecutorExit
    \/ \E ok \in BOOLEAN : CheckpointWrite(ok)
    \/ \E r \in Records : WorkerStart(r)
    \/ \E r \in Records, reply \in SchedReplies : WorkerAttempt(r, reply)
    \/ \E r \in Records : TaskWindowElapses(r)

Spec == Init /\ [][Next]_vars

\* the scheduler's actions that the script itself takes, the passing of time
\* and the pool's threads picking up work are fair; the replies of the remote
\* service are not: a call may never return
FairSpec ==
    /\ Spec
    /\ WF_vars(Load)
    /\ WF_vars(Iterate)
    /\ WF_vars(\E r \in Records : Collect(r))
    /\ WF_vars(LoopEnd)
    /\ WF_vars(DeadlineExpires)
    /\ WF_vars(BatchTimeout)
    /\ WF_vars(HandlerStep)
    /\ WF_vars(ExecutorExit)
    /\ WF_vars(\E ok \in BOOLEAN : CheckpointWrite(ok))
    /\ WF_vars(\E r \in Records : WorkerStart(r))

\* ------------------------------------- check_location on its own
IdleScheduler ==
    /\ pc = "lookup"
    /\ file = NoFile
    /\ df = [r \in Records |-> "unchecked"]
    /\ to_process = <<>>
    /\ pos = 1
    /\ batch = <<>>
    /\ wstate = [r \in Records |-> "none"]
    /\ attempt = [r \in Records |-> 0]
    /\ result = [r \in Records |-> "none"]
    /\ yielded = {}
    /\ deadline = FALSE
    /\ overdue = {}
    /\ hpos = 1
    /\ marked = {}
    /\ io_error = FALSE

\* check_location(index, ...) is entered, lines 107-109
InitLookup ==
    /\ IdleScheduler
    /\ IdleCompare
    /\ lk_pc = "loop"
    /\ lk_index \in Records
    /\ lk_attempt = 0
    /\ lk_calls = 0
    /\ lk_log = <<>>
    /\ lk_return = [index |-> 0, status |-> "none"]
    /\ lk_slept = 0
    /\ lk_waits = <<>>

\* line 113: time.sleep(REQUEST_DELAY * (attempt + 1)), in milliseconds
request_delay(a) == REQUEST_DELAY_MS * (a + 1)

\* lines 109 and 192-194: backoff_factor ** (attempt + 1) with backoff_factor
\* = 1.5 = 3/2, in milliseconds (1500, 2250, 3375)
backoff_wait(a) == (1000 * 3^(a + 1)) \div 2^(a + 1)

\* lines 111-201: one attempt: the sleep of line 113, the call of
\* geolocator.reverse and its reply, and the sleep of line 194 on a timeout
LookupAttempt(reply) ==
    /\ lk_pc = "loop"
    /\ in_range(lk_attempt)
    /\ lk_calls' = lk_calls + 1
    /\ lk_log' = Append(lk_log, reply)
    /\ lk_waits' = Append(lk_waits, lk_slept + request_delay(lk_attempt))
    /\ lk_slept' = IF reply.kind = "timeout" THEN backoff_wait(lk_attempt) ELSE 0
    /\ LET st == LoopStep(lk_attempt, reply)
       IN /\ lk_attempt' = st.attempt
          /\ IF st.ret
             THEN /\ lk_pc' = "returned"
                  /\ lk_return' = [index |-> lk_index, status |-> st.status]
             ELSE UNCHANGED <<lk_pc, lk_return>>
    /\ UNCHANGED <<lk_index, sched_vars, compare_vars>>

NextLookup == \E reply \in Replies : LookupAttempt(reply)

SpecLookup == InitLookup /\ [][NextLookup]_vars

\* number of replies of kind k in the log
CountKind(k) == Cardinality({i \in 1..Len(lk_log) : lk_log[i].kind = k})

\* ===================================================================
\* Names and their comparison (normalize_name and lines 120-189)
\* ===================================================================
\* A Python str is a sequence of one-character strings.

Uppers == <<"A", "B", "C", "D", "E", "F", "G", "H", "I", "J", "K", "L", "M",
            "N", "O", "P", "Q", "R", "S", "T", "U", "V", "W", "X", "Y", "Z">>
Lowers == <<"a", "b", "c", "d", "e", "f", "g", "h", "i", "j", "k", "l", "m",
            "n", "o", "p", "q", "r", "s", "t", "u", "v", "w", "x", "y", "z">>

LowerChar(c) ==
    IF \E i \in 1..Len(Uppers) : Uppers[i] = c
    THEN Lowers[CHOOSE i \in 1..Len(Uppers) : Uppers[i] = c] ELSE c
UpperChar(c) ==
    IF \E i \in 1..Len(Lowers) : Lowers[i] = c
    THEN Uppers[CHOOSE i \in 1..Len(Lowers) : Lowers[i] = c] ELSE c

\* str.lower() and str.upper()
Lower(s) == [i \in 1..Len(s) |-> LowerChar(s[i])]
Upper(s) == [i \in 1..Len(s) |-> UpperChar(s[i])]

RECURSIVE LStrip(_)
LStrip(s) == IF s # <<>> /\ s[1] = " " THEN LStrip(Tail(s)) ELSE s
RECURSIVE RStrip(_)
RStrip(s) == IF s # <<>> /\ s[Len(s)] = " " THEN RStrip(SubSeq(s, 1, Len(s) - 1)) ELSE s
\* str.strip()
Strip(s) == RStrip(LStrip(s))

\* s.startswith(t)
StartsWith(s, t) == Len(t) <= Len(s) /\ SubSeq(s, 1, Len(t)) = t

RECURSIVE Replace(_, _, _)
\* s.replace(old, new) for a non-empty old: leftmost occurrences, not overlapping
Replace(s, old, new) ==
    IF Len(s) < Len(old) THEN s
    ELSE IF StartsWith(s, old)
         THEN new \o Replace(SubSeq(s, Len(old) + 1, Len(s)), old, new)
         ELSE <<s[1]>> \o Replace(Tail(s), old, new)

\* `t in s` for two strings
Contains(s, t) ==
    \E i \in 0..(Len(s) - Len(t)) : SubSeq(s, i + 1, i + Len(t)) = t

\* lines 40-54, <<abbreviation, name>>
US_STATES ==
    {<<<<"A", "L">>, <<"A", "l", "a", "b", "a", "m", "a">>>>,
     <<<<"A", "K">>, <<"A", "l", "a", "s", "k", "a">>>>,
     <<<<"A", "Z">>, <<"A", "r", "i", "z", "o", "n", "a">>>>,
     <<<<"A", "R">>, <<"A", "r", "k", "a", "n", "s", "a", "s">>>>,
     <<<<"C", "A">>, <<"C", "a", "l", "i", "f", "o", "r", "n", "i", "a">>>>,
     <<<<"C", "O">>, <<"C", "o", "l", "o", "r", "a", "d", "o">>>>,
     <<<<"C", "T">>, <<"C", "o", "n", "n", "e", "c", "t", "i", "c", "u", "t">>>>,
     <<<<"D", "E">>, <<"D", "e", "l", "a", "w", "a", "r", "e">>>>,
     <<<<"F", "L">>, <<"F", "l", "o", "r", "i", "d", "a">>>>,
     <<<<"G", "A">>, <<"G", "e", "o", "r", "g", "i", "a">>>>,
     <<<<"H", "I">>, <<"H", "a", "w", "a", "i", "i">>>>,
     <<<<"I", "D">>, <<"I", "d", "a", "h", "o">>>>,
     <<<<"I", "L">>, <<"I", "l", "l", "i", "n", "o", "i", "s">>>>,
     <<<<"I", "N">>, <<"I", "n", "d", "i", "a", "n", "a">>>>,
     <<<<"I", "A">>, <<"I", "o", "w", "a">>>>,
     <<<<"K", "S">>, <<"K", "a", "n", "s", "a", "s">>>>,
     <<<<"K", "Y">>, <<"K", "e", "n", "t", "u", "c", "k", "y">>>>,
     <<<<"L", "A">>, <<"L", "o", "u", "i", "s", "i", "a", "n", "a">>>>,
     <<<<"M", "E">>, <<"M", "a", "i", "n", "e">>>>,
     <<<<"M", "D">>, <<"M", "a", "r", "y", "l", "a", "n", "d">>>>,
     <<<<"M", "A">>, <<"M", "a", "s", "s", "a", "c", "h", "u", "s", "e", "t", "t", "s">>>>,
     <<<<"M", "I">>, <<"M", "i", "c", "h", "i", "g", "a", "n">>>>,
     <<<<"M", "N">>, <<"M", "i", "n", "n", "e", "s", "o", "t", "a">>>>,
     <<<<"M", "S">>, <<"M", "i", "s", "s", "i", "s", "s", "i", "p", "p", "i">>>>,
     <<<<"M", "O">>, <<"M", "i", "s", "s", "o", "u", "r", "i">>>>,
     <<<<"M", "T">>, <<"M", "o", "n", "t", "a", "n", "a">>>>,
     <<<<"N", "E">>, <<"N", "e", "b", "r", "a", "s", "k", "a">>>>,
     <<<<"N", "V">>, <<"N", "e", "v", "a", "d", "a">>>>,
     <<<<"N", "H">>, <<"N", "e", "w", " ", "H", "a", "m", "p", "s", "h", "i", "r", "e">>>>,
     <<<<"N", "J">>, <<"N", "e", "w", " ", "J", "e", "r", "s", "e", "y">>>>,
     <<<<"N", "M">>, <<"N", "e", "w", " ", "M", "e", "x", "i", "c", "o">>>>,
     <<<<"N", "Y">>, <<"N", "e", "w", " ", "Y", "o", "r", "k">>>>,
     <<<<"N", "C">>, <<"N", "o", "r", "t", "h", " ", "C", "a", "r", "o", "l", "i", "n", "a">>>>,
     <<<<"N", "D">>, <<"N", "o", "r", "t", "h", " ", "D", "a", "k", "o", "t", "a">>>>,
     <<<<"O", "H">>, <<"O", "h", "i", "o">>>>,
     <<<<"O", "K">>, <<"O", "k", "l", "a", "h", "o", "m", "a">>>>,
     <<<<"O", "R">>, <<"O", "r", "e", "g", "o", "n">>>>,
     <<<<"P", "A">>, <<"P", "e", "n", "n", "s", "y", "l", "v", "a", "n", "i", "a">>>>,
     <<<<"R", "I">>, <<"R", "h", "o", "d", "e", " ", "I", "s", "l", "a", "n", "d">>>>,
     <<<<"S", "C">>, <<"S", "o", "u", "t", "h", " ", "C", "a", "r", "o", "l", "i", "n", "a">>>>,
     <<<<"S", "D">>, <<"S", "o", "u", "t", "h", " ", "D", "a", "k", "o", "t", "a">>>>,
     <<<<"T", "N">>, <<"T", "e", "n", "n", "e", "s", "s", "e", "e">>>>,
     <<<<"T", "X">>, <<"T", "e", "x", "a", "s">>>>,
     <<<<"U", "T">>, <<"U", "t", "a", "h">>>>,
     <<<<"V", "T">>, <<"V", "e", "r", "m", "o", "n", "t">>>>,
     <<<<"V", "A">>, <<"V", "i", "r", "g", "i", "n", "i", "a">>>>,
     <<<<"W", "A">>, <<"W", "a", "s", "h", "i", "n", "g", "t", "o", "n">>>>,
     <<<<"W", "V">>, <<"W", "e", "s", "t", " ", "V", "i", "r", "g", "i", "n", "i", "a">>>>,
     <<<<"W", "I">>, <<"W", "i", "s", "c", "o", "n", "s", "i", "n">>>>,
     <<<<"W", "Y">>, <<"W", "y", "o", "m", "i", "n", "g">>>>}

\* lines 56-70, <<abbreviation, name>>
CA_PROVINCES ==
    {<<<<"A", "B">>, <<"A", "l", "b", "e", "r", "t", "a">>>>,
     <<<<"B", "C">>, <<"B", "r", "i", "t", "i", "s", "h", " ", "C", "o", "l", "u", "m", "b", "i", "a">>>>,
     <<<<"M", "B">>, <<"M", "a", "n", "i", "t", "o", "b", "a">>>>,
     <<<<"N", "B">>, <<"N", "e", "w", " ", "B", "r", "u", "n", "s", "w", "i", "c", "k">>>>,
     <<<<"N", "L">>, <<"N", "e", "w", "f", "o", "u", "n", "d", "l", "a", "n", "d", " ", "a", "n", "d", " ", "L", "a", "b", "r", "a", "d", "o", "r">>>>,
     <<<<"N", "T">>, <<"N", "o", "r", "t", "h", "w", "e", "s", "t", " ", "T", "e", "r", "r", "i", "t", "o", "r", "i", "e", "s">>>>,
     <<<<"N", "S">>, <<"N", "o", "v", "a", " ", "S", "c", "o", "t", "i", "a">>>>,
     <<<<"N", "U">>, <<"N", "u", "n", "a", "v", "u", "t">>>>,
     <<<<"O", "N">>, <<"O", "n", "t", "a", "r", "i", "o">>>>,
     <<<<"P", "E">>, <<"P", "r", "i", "n", "c", "e", " ", "E", "d", "w", "a", "r", "d", " ", "I", "s", "l", "a", "n", "d">>>>,
     <<<<"Q", "C">>, <<"Q", "u", "e", "b", "e", "c">>>>,
     <<<<"S", "K">>, <<"S", "a", "s", "k", "a", "t", "c", "h", "e", "w", "a", "n">>>>,
     <<<<"Y", "T">>, <<"Y", "u", "k", "o", "n">>>>}

\* STATE_PROVINCE_MAPPING.get(code, {}), lines 38-71
STATE_PROVINCE_MAPPING(code) ==
    IF code = <<"U", "S">> THEN US_STATES
    ELSE IF code = <<"C", "A">> THEN CA_PROVINCES
    ELSE {}

\* `code in STATE_PROVINCE_MAPPING`
KnownCountry(code) == code \in {<<"U", "S">>, <<"C", "A">>}

\* REVERSE_MAPPINGS.get(code, {}).get(name, ''), lines 74-77 and 160
REVERSE_MAPPINGS(code, name) ==
    IF \E e \in STATE_PROVINCE_MAPPING(code) : Lower(e[2]) = name
    THEN (CHOOSE e \in STATE_PROVINCE_MAPPING(code) : Lower(e[2]) = name)[1]
    ELSE <<>>

\* the replacements of lines 93-102, in the order of the dict
Replacements ==
    <<  <<<<".">>, <<>>>>,
        <<<<",">>, <<>>>>,
        <<<<"t", "o", "w", "n", " ", "o", "f", " ">>, <<>>>>,
        <<<<"c", "i", "t", "y", " ", "o", "f", " ">>, <<>>>>,
        <<<<"u", "n", "i", "t", "e", "d", " ", "s", "t", "a", "t", "e", "s">>, <<"u", "s">>>>,
        <<<<"u", "s", "a">>, <<"u", "s">>>>,
        <<<<"c", "a", "n", "a", "d", "a">>, <<"c", "a">>>>,
        <<<<" ", " ">>, <<" ">>>>  >>

RECURSIVE ApplyReplacements(_, _)
\* lines 103-104, from the k-th replacement on
ApplyReplacements(name, k) ==
    IF k > Len(Replacements) THEN name
    ELSE ApplyReplacements(Replace(name, Replacements[k][1], Replacements[k][2]), k + 1)

\* lines 88-91: the full name of an abbreviation of the country, lowercased
Expand(name, country_code) ==
    LET mapping == STATE_PROVINCE_MAPPING(Upper(country_code))
    IN Lower((CHOOSE e \in mapping : e[1] = Upper(name))[2])

\* normalize_name, lines 80-105; every caller passes a str, and an absent
\* country_code (None) is the empty string
normalize_name(name, country_code) ==
    IF Strip(name) = <<>> THEN <<>>
    ELSE LET n == Lower(Strip(name))
         IN IF /\ country_code # <<>>
               /\ KnownCountry(Upper(country_code))
               /\ \E e \in STATE_PROVINCE_MAPPING(Upper(country_code)) : e[1] = Upper(n)
            THEN Expand(n, country_code)
            ELSE ApplyReplacements(n, 1)

Max(a, b) == IF a >= b THEN a ELSE b

RECURSIVE LcsRow(_, _, _, _)
\* one row of the longest-common-subsequence table: prev is the row of the
\* prefix before character c, cur the part of the new row built so far
LcsRow(prev, c, t, cur) ==
    IF Len(cur) = Len(t) + 1 THEN cur
    ELSE LET j == Len(cur)
             v == IF c = t[j] THEN prev[j] + 1 ELSE Max(prev[j + 1], cur[j])
         IN LcsRow(prev, c, t, Append(cur, v))

RECURSIVE LcsFrom(_, _, _, _)
LcsFrom(s, t, i, prev) ==
    IF i > Len(s) THEN prev[Len(t) + 1]
    ELSE LcsFrom(s, t, i + 1, LcsRow(prev, s[i], t, <<0>>))

\* length of a longest common subsequence of s and t
Lcs(s, t) == LcsFrom(s, t, 1, [j \in 1..(Len(t) + 1) |-> 0])

\* int(round(n / d)), Python's round: halves go to the even neighbour
RoundDiv(n, d) ==
    LET q == n \div d
        r == n % d
    IN IF 2 * r > d THEN q + 1
       ELSE IF 2 * r < d THEN q
       ELSE IF q % 2 = 0 THEN q ELSE q + 1

\* fuzz.ratio of fuzzywuzzy with python-Levenshtein (line 10): 100 for equal
\* strings, 0 when one is empty, else 100 * 2 * LCS / (len(s) + len(t)), rounded
fuzz_ratio(s, t) ==
    IF s = t THEN 100
    ELSE IF s = <<>> \/ t = <<>> THEN 0
    ELSE RoundDiv(200 * Lcs(s, t), Len(s) + Len(t))

\* address.get(field, ''), the address being a function on the fields it has
Get(address, field) == IF field \in DOMAIN address THEN address[field] ELSE <<>>

\* lines 123-127
city_fields == <<"neighbourhood", "suburb", "hamlet", "village", "town", "city",
                 "municipality", "county">>

RECURSIVE FirstCity(_, _)
\* lines 128-132: the first city field that is present and not empty
FirstCity(address, k) ==
    IF k > Len(city_fields) THEN <<>>
    ELSE IF Get(address, city_fields[k]) # <<>> THEN address[city_fields[k]]
    ELSE FirstCity(address, k + 1)

\* lines 147-150
country_match(expected_country, rev_country) ==
    \/ expected_country = rev_country
    \/ fuzz_ratio(expected_country, rev_country) > 85

state_match_raw_abbreviation(expected_state, rev_state, state_abbrev, rev_state_abbrev) ==
    /\ expected_state # <<>>
    /\ rev_state # <<>>
    /\ Lower(state_abbrev) = rev_state

\* lines 157-166
state_match(expected_state, rev_state, state_abbrev, rev_state_abbrev) ==
    /\ expected_state # <<>>
    /\ rev_state # <<>>
    /\ \/ expected_state = rev_state
       \/ Lower(state_abbrev) = Lower(rev_state_abbrev)
       \/ fuzz_ratio(expected_state, rev_state) > 70

city_match_unguarded(expected_city, actual_city) ==
    \/ Contains(actual_city, expected_city)
    \/ Contains(expected_city, actual_city)
    \/ fuzz_ratio(expected_city, actual_city) > 70

\* lines 169-175
city_match(expected_city, actual_city) ==
    /\ actual_city # <<>>
    /\ \/ Contains(actual_city, expected_city)
       \/ Contains(expected_city, actual_city)
       \/ fuzz_ratio(expected_city, actual_city) > 70

\* lines 117-189 of check_location for the location the service returned:
\* the normalized names, the three comparisons and the verdict
Reconcile(city, country, state_abbrev, address) ==
    LET rev_city == FirstCity(address, 1)
        rev_country == normalize_name(Get(address, "country"), <<>>)
        rev_state == normalize_name(Get(address, "state"), <<>>)
        expected_city == normalize_name(city, <<>>)
        expected_country == normalize_name(country, <<>>)
        expected_state == normalize_name(state_abbrev, country)
        actual_city == normalize_name(rev_city, <<>>)
        rev_state_abbrev == REVERSE_MAPPINGS(Upper(country), rev_state)
        cm == country_match(expected_country, rev_country)
        sm == state_match(expected_state, rev_state, state_abbrev, rev_state_abbrev)
        tm == city_match(expected_city, actual_city)
    IN [op |-> "reconcile",
        has_address |-> DOMAIN address # {},
        expected_city |-> expected_city, expected_state |-> expected_state,
        expected_country |-> expected_country,
        actual_city |-> actual_city, rev_state |-> rev_state,
        rev_country |-> rev_country,
        country_match |-> cm, state_match |-> sm, city_match |-> tm,
        verdict |-> IF DOMAIN address = {} THEN "unknown"
                    ELSE Decision(cm, sm, tm, actual_city # <<>>)]

\* ------------------------------------------------ inputs of the calls
\* names besides those of the two tables: blank, country long forms,
\* punctuation, filler words, repeated spaces
ExtraNames ==
    {<<>>,
     <<" ">>,
     <<"u", "s", "a">>,
     <<"U", "S", "A">>,
     <<"u", "s", "a", "a">>,
     <<"U", ".", "S", ".", "A", ".">>,
     <<"U", "n", "i", "t", "e", "d", " ", "S", "t", "a", "t", "e", "s">>,
     <<"C", "a", "n", "a", "d", "a">>,
     <<"c", "a", "n", "a", "d", "a">>,
     <<"C", "i", "t", "y", " ", "o", "f", " ", "C", "h", "i", "c", "a", "g", "o">>,
     <<"T", "o", "w", "n", " ", "o", "f", " ", "S", "a", "l", "e", "m">>,
     <<"c", "i", "t", "y", " ", "o", "f", " ", " ", "y", "o", "r", "k">>,
     <<"S", "t", ".", " ", "L", "o", "u", "i", "s">>,
     <<"S", "p", "r", "i", "n", "g", "f", "i", "e", "l", "d">>,
     <<"a", " ", " ", " ", "b">>}

\* the names normalize_name is called with
NormalizeNames ==
    {e[1] : e \in US_STATES \cup CA_PROVINCES}
    \cup {e[2] : e \in US_STATES \cup CA_PROVINCES}
    \cup ExtraNames

\* the country contexts: absent, the two known codes (also lowercase), an
\* unknown one
Contexts == {<<>>, <<"U", "S">>, <<"C", "A">>, <<"u", "s">>, <<"F", "R">>}

NormalizeInputs ==
    {[op |-> "normalize", name |-> x, country_code |-> c] :
        x \in NormalizeNames, c \in Contexts}

\* str(row.city)
ExpectedCities ==
    {<<"S", "p", "r", "i", "n", "g", "f", "i", "e", "l", "d">>,
     <<"C", "h", "i", "c", "a", "g", "o">>}
\* str(row.state); `nan` is the str of a missing value, `.` normalizes to
\* the empty name
ExpectedStates ==
    {<<"I", "L">>,
     <<"C", "A">>,
     <<"I", "l", "l", "i", "n", "o", "i", "s">>,
     <<"n", "a", "n">>,
     <<".">>}
\* str(row.country)
ExpectedCountries ==
    {<<"U", "S">>,
     <<"C", "A">>,
     <<"F", "r", "a", "n", "c", "e">>,
     <<"P", "h", "i", "l", "l", "i", "p", "i", "n", "e", "s">>,
     <<"B", "r", "a", "s", "i", "l">>}
\* the address without any field
NoFields == [f \in {} |-> <<>>]

\* the city fields of an address
CityParts ==
    {NoFields,
     ("city" :> <<"S", "p", "r", "i", "n", "g", "f", "i", "e", "l", "d">>),
     ("town" :> <<"S", "h", "e", "l", "b", "y", "v", "i", "l", "l", "e">> @@ "city" :> <<"S", "p", "r", "i", "n", "g", "f", "i", "e", "l", "d">>),
     ("city" :> <<"C", "i", "t", "y", " ", "o", "f", " ", "C", "h", "i", "c", "a", "g", "o">>),
     ("village" :> <<".">> @@ "hamlet" :> <<>>)}
\* its state field
StateParts ==
    {NoFields,
     ("state" :> <<"I", "l", "l", "i", "n", "o", "i", "s">>),
     ("state" :> <<"C", "a", "l", "i", "f", "o", "r", "n", "i", "a">>),
     ("state" :> <<"I", "l", "i", "n", "o", "i", "s">>)}
\* its country field
CountryParts ==
    {NoFields,
     ("country" :> <<"U", "n", "i", "t", "e", "d", " ", "S", "t", "a", "t", "e", "s">>),
     ("country" :> <<"C", "a", "n", "a", "d", "a">>),
     ("country" :> <<"F", "r", "a", "n", "c", "e">>),
     ("country" :> <<"P", "h", "i", "l", "i", "p", "p", "i", "n", "e", "s">>),
     ("country" :> <<"B", "r", "a", "z", "i", "l">>)}

\* the comparison is called with every expected triple and every address
DecisionInputs ==
    {[op |-> "reconcile", city |-> c, country |-> k, state_abbrev |-> s,
      address |-> ac @@ as @@ ak] :
        c \in ExpectedCities, k \in ExpectedCountries, s \in ExpectedStates,
        ac \in CityParts, as \in StateParts, ak \in CountryParts}

\* the name of the country of a code of the mapping, as the service gives it
CountryName(code) ==
    IF code = <<"U", "S">>
    THEN <<"U", "n", "i", "t", "e", "d", " ", "S", "t", "a", "t", "e", "s">>
    ELSE <<"C", "a", "n", "a", "d", "a">>

\* every abbreviation of the two tables, claimed under its country, against an
\* address that carries the full name
AbbreviationInputs ==
    {[op |-> "reconcile", city |-> <<"S", "a", "l", "e", "m">>, country |-> k,
      state_abbrev |-> e[1],
      address |-> ("state" :> e[2] @@ "country" :> CountryName(k))] :
        k \in {<<"U", "S">>, <<"C", "A">>}, e \in US_STATES \cup CA_PROVINCES}

ReconcileInputs ==
    DecisionInputs
    \cup {i \in AbbreviationInputs :
             <<i.state_abbrev, i.address["state"]>> \in STATE_PROVINCE_MAPPING(i.country)}

\* ------------------------------------------------------- the calls
InitCompare ==
    /\ IdleScheduler
    /\ IdleLookup
    /\ fn_pc = "called"
    /\ fn_in \in NormalizeInputs \cup ReconcileInputs
    /\ fn_out = [op |-> "none"]

\* normalize_name(name, country_code), and normalize_name of its result
CallNormalize ==
    /\ fn_pc = "called"
    /\ fn_in.op = "normalize"
    /\ fn_out' = [op |-> "normalize",
                  once |-> normalize_name(fn_in.name, fn_in.country_code),
                  twice |-> normalize_name(
                                normalize_name(fn_in.name, fn_in.country_code),
                                fn_in.country_code)]
    /\ fn_pc' = "returned"
    /\ UNCHANGED <<fn_in, sched_vars, lookup_vars>>

\* lines 117-189 for a location the service returned
CallReconcile ==
    /\ fn_pc = "called"
    /\ fn_in.op = "reconcile"
    /\ fn_out' = Reconcile(fn_in.city, fn_in.country, fn_in.state_abbrev, fn_in.address)
    /\ fn_pc' = "returned"
    /\ UNCHANGED <<fn_in, sched_vars, lookup_vars>>

NextCompare == CallNormalize \/ CallReconcile

SpecCompare == InitCompare /\ [][NextCompare]_vars

\* the call has returned
Normalized == fn_pc = "returned" /\ fn_out.op = "normalize"
Reconciled == fn_pc = "returned" /\ fn_out.op = "reconcile" /\ fn_out.has_address

\* ===================================================================
\* Properties
\* ===================================================================

\* C6 (as claimed): once an attempt has failed with a service error other than
\* a timeout, check_location has returned, with status `error`, and that
\* failed attempt was its last call.
C6_AbortOnError ==
    \A i \in 1..Len(lk_log) :
        lk_log[i].kind = "error" =>
            /\ lk_pc = "returned"
            /\ lk_return.status = "error"
            /\ i = Len(lk_log)

\* C7: check_location calls the service at most `retries` (3) times; every
\* timeout consumes one attempt and is retried while attempts remain, and
\* three timeouts in a row give the status `timeout`.
C7_RetryCeiling ==
    /\ lk_calls <= retries
    /\ lk_calls = Len(lk_log)
    /\ (lk_pc = "loop" => lk_attempt = lk_calls /\ lk_calls < retries)
    /\ (lk_pc = "loop" /\ lk_calls > 0 =>
            lk_log[Len(lk_log)].kind \in {"timeout", "error"})
    /\ (lk_pc = "returned" /\ lk_log[Len(lk_log)].kind = "timeout" =>
            lk_calls = retries /\ lk_return.status = "timeout")
    /\ (CountKind("timeout") = retries =>
            lk_pc = "returned" /\ lk_return.status = "timeout")

\* three attempts have timed out and check_location has returned
C7_Witness ==
    /\ lk_pc = "returned"
    /\ CountKind("timeout") = retries
    /\ lk_calls = retries

\* the statuses a processed record may end with
Terminal == Statuses \ {"unchecked"}

\* C1 (as claimed): when the checkpoint of a batch is about to be written, no
\* record of that batch still has status `unchecked`.
C1_CheckpointAtomicity ==
    pc = "checkpoint" => \A r \in BatchSet : df[r] # "unchecked"

\* C2 (as claimed): once the batch deadline has expired and the scheduler is in
\* its timeout handler, the checkpoint of the batch is eventually written,
\* even if a worker's remote call never returns.
C2_DeadlineLiveness == (pc = "handler") ~> (pc = "checkpoint")

\* C3 (as claimed): a worker that has not returned within the 30 s per-task
\* window has its record set to `timeout` by the scheduler: when such a worker
\* returns at last, its record is `timeout` already, and stays so.
C3_PerWorkerDeadline ==
    [][\A r \in overdue :
          wstate'[r] = "finished" => df[r] = "timeout" /\ df'[r] = "timeout"]_vars

\* C4 (as claimed): a run started over a checkpoint of a former run keeps the
\* status of every record the former run had verified and only processes the
\* records that are still `unchecked`.
C4_IdempotentRerun ==
    [][(pc = "start" /\ file.exists) =>
         /\ \A r \in Records :
               file.rows[r] # "unchecked" => df'[r] = file.rows[r]
         /\ \A i \in 1..Len(to_process') :
               file.rows[to_process'[i]] = "unchecked"]_vars

\* C5 (as claimed): at the end of an uninterrupted run every record that was
\* to be processed has one of the eight statuses other than `unchecked`.
C5_FullRunTerminalStatus ==
    pc = "done" => \A i \in 1..Len(to_process) : df[to_process[i]] \in Terminal

\* C8: a failed checkpoint write ends the run: the script is stopped and, from
\* then on, no status changes, no worker is started and nothing is written.
C8_PersistFailureHalts ==
    /\ [](io_error => pc = "crashed")
    /\ [][io_error => (df' = df /\ wstate' = wstate /\ file' = file /\ pos' = pos)]_vars

\* the checkpoint write of a batch has failed while rows remain to be processed
C8_Witness ==
    /\ io_error
    /\ pc = "crashed"
    /\ pos <= Len(to_process)

\* C9: a checkpoint is written only when every worker of the batch has ended;
\* workers exist only for the batch in flight, so no worker of the next batch
\* runs before the checkpoint and workers of two batches never run together.
C9_CheckpointOrdering ==
    /\ pc \in {"start", "filling", "checkpoint", "done", "crashed"} =>
           \A r \in Records : wstate[r] \notin {"pending", "running"}
    /\ \A r \in Records : wstate[r] \in {"pending", "running"} => r \in BatchSet
    /\ pc = "checkpoint" => \A r \in BatchSet : wstate[r] = "finished"

\* a worker of a later batch runs, after the first checkpoint was written
C9_Witness ==
    /\ pc = "collecting"
    /\ \E r \in Running : r > CHECKPOINT_EVERY
    /\ file.exists
    /\ \A r \in Records : r <= CHECKPOINT_EVERY => file.rows[r] = df[r]

\* C10: a record the batch-timeout handler has marked `timeout` keeps that
\* status, whatever its worker returns later.
C10_LateResultsDiscarded ==
    \A r \in marked : df[r] = "timeout"

\* the worker of a marked record has returned another verdict, and the
\* checkpoint is about to be written
C10_Witness ==
    /\ pc = "checkpoint"
    /\ \E r \in marked \cap BatchSet :
          wstate[r] = "finished" /\ result[r] \notin {"timeout", "none"}

\* C14: a successful call that brings no location or no address makes
\* check_location return `unknown` at once: it is its last call.
C14_NoAddressUnknown ==
    \A i \in 1..Len(lk_log) :
        lk_log[i].kind = "noaddress" =>
            /\ i = Len(lk_log)
            /\ lk_calls = i
            /\ lk_pc = "returned"
            /\ lk_return = [index |-> lk_index, status |-> "unknown"]

\* a retried attempt was followed by a reply without address
C14_Witness ==
    /\ lk_pc = "returned"
    /\ Len(lk_log) = 2
    /\ lk_log[1].kind = "timeout"
    /\ lk_log[2].kind = "noaddress"

\* every call so far has failed (timeout or other error)
AllFailed == \A i \in 1..Len(lk_log) : lk_log[i].kind \in {"timeout", "error"}

\* C20: when all three attempts fail, the status is the kind of the third
\* failure, whatever the first two were, and the loop is never left through
\* its end (the `unknown` of line 201).
C20_ThirdFailureDecides ==
    /\ lk_attempt < retries
    /\ (lk_pc = "loop" => AllFailed)
    /\ (AllFailed /\ Len(lk_log) = retries =>
            /\ lk_pc = "returned"
            /\ lk_return.status = lk_log[retries].kind)
    /\ (lk_pc = "returned" /\ AllFailed => Len(lk_log) = retries)

\* three failures of mixed kinds: the first differs from the third
C20_Witness ==
    /\ lk_pc = "returned"
    /\ AllFailed
    /\ Len(lk_log) = retries
    /\ lk_log[1].kind # lk_log[retries].kind
    /\ lk_log[2].kind # lk_log[retries].kind

\* the main thread is between the submission of a batch and its checkpoint
InFlight == pc \in {"collecting", "handler", "shutdown", "checkpoint"}

\* C16: the rows to process are all the rows that were `unchecked`, in input
\* order; the batch in flight is the run of rows just before the loop
\* position; it starts at a multiple of the batch size, has at most
\* CHECKPOINT_EVERY rows and has fewer only when the input is exhausted; at
\* the end of the run the last batch has been written to the checkpoint.
C16_BatchFormation ==
    /\ pc # "start" => to_process = [i \in 1..NumRecords |-> i]
    /\ pos - Len(batch) >= 1
    /\ batch = SubSeq(to_process, pos - Len(batch), pos - 1)
    /\ Len(batch) <= CHECKPOINT_EVERY
    /\ InFlight =>
          /\ Len(batch) >= 1
          /\ (pos - Len(batch) - 1) % CHECKPOINT_EVERY = 0
          /\ (Len(batch) < CHECKPOINT_EVERY => pos > Len(to_process))
          /\ \A r \in BatchSet : wstate[r] # "none"
    /\ pc = "filling" =>
          /\ Len(batch) < CHECKPOINT_EVERY
          /\ (pos - Len(batch) - 1) % CHECKPOINT_EVERY = 0
          /\ pos <= Len(to_process)
    /\ pc = "done" =>
          /\ pos = Len(to_process) + 1
          /\ batch = <<>>
          /\ file = [exists |-> TRUE, rows |-> df]

\* the last batch is a partial one and is about to be checkpointed
C16_Witness ==
    /\ pc = "checkpoint"
    /\ Len(batch) >= 1
    /\ Len(batch) < CHECKPOINT_EVERY
    /\ pos = Len(to_process) + 1

\* C17: at most MAX_THREADS workers execute check_location at any time, and a
\* pending work item is only started when fewer than MAX_THREADS are running.
C17_BoundedPool ==
    /\ [](Cardinality(Running) <= MAX_THREADS)
    /\ [][\A r \in Records :
            (wstate[r] = "pending" /\ wstate'[r] = "running") =>
                Cardinality(Running) < MAX_THREADS]_vars

\* the pool is full and a work item of the batch is waiting
C17_Witness ==
    /\ Cardinality(Running) = MAX_THREADS
    /\ \E r \in BatchSet : wstate[r] = "pending"

\* C18: within a run a status is written at most once: a status other than
\* `unchecked` never changes, and no record is both collected from its worker
\* and marked by the batch-timeout handler.
C18_SingleTransition ==
    /\ [](marked \cap yielded = {})
    /\ [][\A r \in Records : df'[r] # df[r] => df[r] = "unchecked"]_vars

\* a batch that timed out after one of its results had been collected
C18_Witness ==
    /\ pc = "checkpoint"
    /\ \E r \in yielded : df[r] = result[r]
    /\ marked \cap BatchSet # {}

\* C19 (as claimed): every call is preceded by a wait, and the waits before the
\* successive calls of one record grow strictly and geometrically (each wait
\* is the one before times a constant factor).
C19_GeometricBackoff ==
    /\ Len(lk_waits) = lk_calls
    /\ \A k \in 1..Len(lk_waits) : lk_waits[k] > 0
    /\ \A k \in 1..(Len(lk_waits) - 1) : lk_waits[k] < lk_waits[k + 1]
    /\ \A k \in 2..(Len(lk_waits) - 1) :
          lk_waits[k] * lk_waits[k] = lk_waits[k - 1] * lk_waits[k + 1]

\* C11: a location with an address whose normalized country is neither equal
\* to the normalized expected country nor more than 85 similar to it gets
\* `inaccurate_country`, whatever the cities and the states are.
C11_CountryShortCircuit ==
    (/\ Reconciled
     /\ fn_out.expected_country # fn_out.rev_country
     /\ fuzz_ratio(fn_out.expected_country, fn_out.rev_country) <= 85)
    => fn_out.verdict = "inaccurate_country"

\* the countries differ although the state and the city would both match
C11_Witness ==
    /\ Reconciled
    /\ fn_out.expected_country = <<"u", "s">>
    /\ fn_out.rev_country = <<"f", "r", "a", "n", "c", "e">>
    /\ fn_out.state_match
    /\ fn_out.city_match
    /\ fn_out.verdict = "inaccurate_country"

\* C12: with an address and a matching country the verdict is `accurate`
\* exactly when city and state match, `state_only_match` exactly when the state
\* matches and there is no actual city, `state_match_city_mismatch` exactly
\* when the state matches and an actual city is there that does not match,
\* `inaccurate` exactly when the state does not match; an empty normalized
\* state never matches, an empty actual city never matches, and the verdict
\* is never `unchecked`, `timeout` or `error`.
C12_DecisionTable ==
    (fn_pc = "returned" /\ fn_out.op = "reconcile") =>
        /\ fn_out.verdict \notin {"unchecked", "timeout", "error"}
        /\ (fn_out.expected_state = <<>> \/ fn_out.rev_state = <<>>)
               => ~fn_out.state_match
        /\ fn_out.actual_city = <<>> => ~fn_out.city_match
        /\ (/\ fn_out.has_address
            /\ \/ fn_out.expected_country = fn_out.rev_country
               \/ fuzz_ratio(fn_out.expected_country, fn_out.rev_country) > 85)
           => /\ fn_out.verdict = "accurate"
                  <=> (fn_out.city_match /\ fn_out.state_match)
              /\ fn_out.verdict = "state_only_match"
                  <=> (fn_out.state_match /\ fn_out.actual_city = <<>>)
              /\ fn_out.verdict = "state_match_city_mismatch"
                  <=> (/\ fn_out.state_match
                       /\ fn_out.actual_city # <<>>
                       /\ ~fn_out.city_match)
              /\ fn_out.verdict = "inaccurate" <=> ~fn_out.state_match

\* the country matches, the state matches and the address has no city, with
\* both normalized states present
C12_Witness ==
    /\ Reconciled
    /\ fn_out.country_match
    /\ fn_out.expected_state # <<>>
    /\ fn_out.state_match
    /\ fn_out.actual_city = <<>>
    /\ fn_out.verdict = "state_only_match"

\* C13: normalizing a normalized name again, under the same country context,
\* gives the same name.
C13_Idempotent == Normalized => fn_out.twice = fn_out.once

\* C15: an abbreviation of the table of a country, claimed under that country,
\* matches the state of an address that carries its full name.
C15_AbbreviationResolution ==
    (/\ fn_pc = "returned"
     /\ fn_in.op = "reconcile"
     /\ <<fn_in.state_abbrev, Get(fn_in.address, "state")>>
            \in STATE_PROVINCE_MAPPING(fn_in.country))
    => fn_out.state_match

\* a province of Canada, told from the state of the same letters
C15_Witness ==
    /\ fn_pc = "returned"
    /\ fn_in.op = "reconcile"
    /\ fn_in.country = <<"C", "A">>
    /\ fn_in.state_abbrev = <<"N", "L">>
    /\ Get(fn_in.address, "state") =
           <<"N", "e", "w", "f", "o", "u", "n", "d", "l", "a", "n", "d", " ",
             "a", "n", "d", " ", "L", "a", "b", "r", "a", "d", "o", "r">>
    /\ fn_out.state_match

====
